---- MODULE Spec2Model ----
(***************************************************************************)
(* A model of the Mandelbrot explorer (src/src/main.rs).                   *)
(*                                                                         *)
(* The program's numbers are IEEE-754 binary64 values (Rust f64) and       *)
(* unsigned 32-bit integers (u32).  f64 arithmetic is modelled bit-exactly *)
(* (round to nearest, ties to even, with subnormals, infinities and NaN):  *)
(* the significand is a natural number kept as a little-endian sequence of *)
(* 15-bit limbs, because a 53-bit significand does not fit the integers    *)
(* of the model checker.  The u32 product 255 * iter of the colour closure *)
(* keeps its width.  The depth, a u32, is an integer here: the bounds of   *)
(* the model keep it far below 2^32, where `iterations += 100` overflows   *)
(* (42,949,671 increases away from the initial 200).                       *)
(***************************************************************************)
EXTENDS Integers, Sequences, FiniteSets, TLC

(***************************************************************************)
(* Natural numbers of arbitrary size: <<l1, ..., ln>> is the sum of        *)
(* l_i * Base^(i-1), every limb in 0..Base-1, the last limb non-zero;      *)
(* << >> is zero.                                                          *)
(***************************************************************************)
LimbBits == 15

Base == 32768

RECURSIVE Trim(_)
Trim(a) == IF a = << >> THEN << >>
           ELSE IF a[Len(a)] = 0 THEN Trim(SubSeq(a, 1, Len(a) - 1))
           ELSE a

Limb(a, i) == IF i <= Len(a) THEN a[i] ELSE 0

RECURSIVE NatOfInt(_)
NatOfInt(n) == IF n = 0 THEN << >> ELSE <<n % Base>> \o NatOfInt(n \div Base)

RECURSIVE NAddFrom(_, _, _, _)
NAddFrom(a, b, i, c) ==
    IF i > Len(a) /\ i > Len(b)
    THEN (IF c = 0 THEN << >> ELSE <<c>>)
    ELSE LET s == Limb(a, i) + Limb(b, i) + c
         IN  <<s % Base>> \o NAddFrom(a, b, i + 1, s \div Base)

NAdd(a, b) == NAddFrom(a, b, 1, 0)

RECURSIVE NSubFrom(_, _, _, _)
NSubFrom(a, b, i, c) ==
    IF i > Len(a) THEN << >>
    ELSE LET s == Limb(a, i) - Limb(b, i) - c
         IN  IF s < 0 THEN <<s + Base>> \o NSubFrom(a, b, i + 1, 1)
                      ELSE <<s>> \o NSubFrom(a, b, i + 1, 0)

\* a - b for a >= b
NSub(a, b) == Trim(NSubFrom(a, b, 1, 0))

RECURSIVE NCmpFrom(_, _, _)
NCmpFrom(a, b, i) ==
    IF i = 0 THEN 0
    ELSE IF a[i] < b[i] THEN -1
    ELSE IF a[i] > b[i] THEN 1
    ELSE NCmpFrom(a, b, i - 1)

\* -1, 0 or 1 as a < b, a = b, a > b
NCmp(a, b) == IF Len(a) < Len(b) THEN -1
              ELSE IF Len(a) > Len(b) THEN 1
              ELSE NCmpFrom(a, b, Len(a))

RECURSIVE NMulSmallFrom(_, _, _, _)
NMulSmallFrom(a, k, i, c) ==
    IF i > Len(a) THEN (IF c = 0 THEN << >> ELSE <<c>>)
    ELSE LET s == a[i] * k + c
         IN  <<s % Base>> \o NMulSmallFrom(a, k, i + 1, s \div Base)

\* a * k for 0 <= k < Base
NMulSmall(a, k) == IF k = 0 \/ a = << >> THEN << >> ELSE NMulSmallFrom(a, k, 1, 0)

Zeros(n) == [i \in 1..n |-> 0]

RECURSIVE NMulFrom(_, _, _)
NMulFrom(a, b, i) ==
    IF i > Len(b) THEN << >>
    ELSE LET p == NMulSmall(a, b[i])
             q == IF p = << >> THEN << >> ELSE Zeros(i - 1) \o p
         IN  NAdd(q, NMulFrom(a, b, i + 1))

NMul(a, b) == IF a = << >> \/ b = << >> THEN << >> ELSE NMulFrom(a, b, 1)

\* a * 2^n
NShl(a, n) == IF a = << >> THEN << >>
              ELSE Zeros(n \div LimbBits) \o NMulSmall(a, 2^(n % LimbBits))

\* floor(a / 2^n)
NShr(a, n) ==
    LET q == n \div LimbBits
        r == n % LimbBits
        m == Len(a) - q
    IN  IF m <= 0 THEN << >>
        ELSE Trim([i \in 1..m |->
                 (a[i + q] \div 2^r) + (Limb(a, i + q + 1) % 2^r) * 2^(LimbBits - r)])

\* whether the n low bits of a are all zero
NLowZero(a, n) ==
    LET q == n \div LimbBits
        r == n % LimbBits
    IN  /\ \A i \in 1..q : Limb(a, i) = 0
        /\ Limb(a, q + 1) % 2^r = 0

\* bit n (from 0) of a
NBit(a, n) == (Limb(a, (n \div LimbBits) + 1) \div 2^(n % LimbBits)) % 2

RECURSIVE IntBitLen(_)
IntBitLen(k) == IF k = 0 THEN 0 ELSE 1 + IntBitLen(k \div 2)

NBitLen(a) == IF a = << >> THEN 0
              ELSE LimbBits * (Len(a) - 1) + IntBitLen(a[Len(a)])

NIsOdd(a) == Limb(a, 1) % 2 = 1

(***************************************************************************)
(* f64: IEEE-754 binary64.  A value is a NaN, an infinity with sign s, or  *)
(* the finite number (-1)^s * m * 2^e in canonical form: 2^52 <= m < 2^53  *)
(* and EMin <= e <= EMax (normal), or m < 2^52 and e = EMin (subnormal or  *)
(* zero).                                                                  *)
(***************************************************************************)
Precision == 53

EMin == -1074

EMax == 971

NaN == [k |-> "nan", s |-> 0, m |-> << >>, e |-> 0]

Inf(s) == [k |-> "inf", s |-> s, m |-> << >>, e |-> 0]

Fin(s, m, e) == [k |-> "fin", s |-> s, m |-> m, e |-> e]

FZero(s) == Fin(s, << >>, EMin)

IsNaN(x) == x.k = "nan"

IsInf(x) == x.k = "inf"

IsFinite(x) == x.k = "fin"

IsZero(x) == x.k = "fin" /\ x.m = << >>

Pack(s, m, e) == IF e > EMax THEN Inf(s) ELSE Fin(s, m, e)

\* the significand r at exponent e, renormalised when rounding up carried
\* into bit Precision
PackCarry(s, r, e, carry) ==
    Pack(s, IF carry THEN NShr(r, 1) ELSE r, IF carry THEN e + 1 ELSE e)

PackRounded(s, r, e) == PackCarry(s, r, e, NBitLen(r) > Precision)

\* M * 2^E (and a fraction of the last bit of M when sticky) rounded at
\* exponent e0 > E: sh = e0 - E bits are dropped, to nearest, ties to even
RoundDrop(s, M, sh, sticky, e0) ==
    PackRounded(s,
                IF /\ NBit(M, sh - 1) = 1
                   /\ (sticky \/ ~NLowZero(M, sh - 1) \/ NBit(M, sh) = 1)
                THEN NAdd(NShr(M, sh), <<1>>)
                ELSE NShr(M, sh),
                e0)

RoundAt(s, M, E, sticky, e0) ==
    IF e0 <= E THEN Pack(s, NShl(M, E - e0), e0)
    ELSE RoundDrop(s, M, e0 - E, sticky, e0)

\* the exponent of the last place of a value whose last place would be at e
\* with unbounded exponent range
LastPlace(e) == IF e < EMin THEN EMin ELSE e

\* (-1)^s * (M + f) * 2^E, 0 <= f < 1 and f > 0 iff sticky, rounded to the
\* nearest f64, ties to even.  With sticky, M has at least two bits more
\* than the result keeps.
FRound(s, M, E, sticky) ==
    IF M = << >> THEN FZero(s)
    ELSE RoundAt(s, M, E, sticky, LastPlace(E + NBitLen(M) - Precision))

\* FRound of an exact value t = <<s, M, E, sticky>>
FRoundOf(t) == FRound(t[1], t[2], t[3], t[4])

\* `n as f64` for an i32 or u32 n: exact
FromInt(n) == FRound(IF n < 0 THEN 1 ELSE 0, NatOfInt(IF n < 0 THEN -n ELSE n),
                     0, FALSE)

FNeg(x) == IF IsNaN(x) THEN x ELSE [x EXCEPT !.s = 1 - x.s]

\* sx * mx * 2^e + sy * my * 2^e for significands of opposite sign that
\* compare as c
DiffExact(sx, mx, sy, my, e, c) ==
    IF c = 0 THEN <<0, << >>, e, FALSE>>
    ELSE IF c > 0 THEN <<sx, NSub(mx, my), e, FALSE>>
    ELSE <<sy, NSub(my, mx), e, FALSE>>

SumExact(sx, mx, sy, my, e) ==
    IF sx = sy THEN <<sx, NAdd(mx, my), e, FALSE>>
    ELSE DiffExact(sx, mx, sy, my, e, NCmp(mx, my))

\* the exact sum of two finite non-zero values, x.e >= y.e, as
\* <<s, M, E, sticky>>
AddExact(x, y) ==
    IF x.e - y.e > Precision + 7
    THEN \* y is below 1/128 of the last place of x (which is normal)
         IF x.s = y.s THEN <<x.s, NShl(x.m, 2), x.e - 2, TRUE>>
         ELSE <<x.s, NSub(NShl(x.m, 3), <<1>>), x.e - 3, TRUE>>
    ELSE SumExact(x.s, NShl(x.m, x.e - y.e), y.s, y.m, y.e)

\* f64 +
FAdd(x, y) ==
    IF IsNaN(x) \/ IsNaN(y) THEN NaN
    ELSE IF IsInf(x) THEN (IF IsInf(y) /\ x.s # y.s THEN NaN ELSE x)
    ELSE IF IsInf(y) THEN y
    ELSE IF IsZero(x) /\ IsZero(y) THEN FZero(IF x.s = y.s THEN x.s ELSE 0)
    ELSE IF IsZero(x) THEN y
    ELSE IF IsZero(y) THEN x
    ELSE FRoundOf(AddExact(IF x.e >= y.e THEN x ELSE y,
                           IF x.e >= y.e THEN y ELSE x))

\* f64 -
FSub(x, y) == FAdd(x, FNeg(y))

\* f64 *
FMul(x, y) ==
    IF IsNaN(x) \/ IsNaN(y) THEN NaN
    ELSE IF IsInf(x) \/ IsInf(y)
         THEN (IF IsZero(x) \/ IsZero(y) THEN NaN ELSE Inf((x.s + y.s) % 2))
    ELSE IF IsZero(x) \/ IsZero(y) THEN FZero((x.s + y.s) % 2)
    ELSE FRound((x.s + y.s) % 2, NMul(x.m, y.m), x.e + y.e, FALSE)

\* The largest q <= qhat with q * b <= r, with r - q * b; p = qhat * b.
RECURSIVE DivCorrect(_, _, _, _)
DivCorrect(qhat, p, r, b) ==
    IF NCmp(p, r) > 0 THEN DivCorrect(qhat - 1, NSub(p, b), r, b)
    ELSE <<qhat, NSub(r, p)>>

\* the quotient limb estimated as est, at most Base - 1
DivLimb(est, r1, b) ==
    DivCorrect(IF est > Base - 1 THEN Base - 1 ELSE est,
               NMulSmall(b, IF est > Base - 1 THEN Base - 1 ELSE est), r1, b)

\* Long division in base Base: i more quotient limbs of r / b, for r < b and
\* the top limb of b at least Base / 2; q holds the limbs found so far.
\* The estimate of a limb from the two top limbs of the remainder is at most
\* two too large.  <<remainder, quotient>>
RECURSIVE DivLimbs(_, _, _, _)
DivLimbs(r, b, i, q) ==
    IF i = 0 THEN <<r, Trim(q)>>
    ELSE LET r1 == IF r = << >> THEN << >> ELSE <<0>> \o r
             c  == DivLimb((Limb(r1, Len(b) + 1) * Base + Limb(r1, Len(b)))
                             \div b[Len(b)], r1, b)
         IN  DivLimbs(c[2], b, i - 1, <<c[1]>> \o q)

\* limbs of a significand, and the bits they hold
SigLimbs == 4

SigBits == SigLimbs * LimbBits

\* the quotient of finite non-zero values whose significands are to be
\* scaled by sx and sy bits, x.m to SigBits - 1 bits and y.m to SigBits bits:
\* the quotient of the scaled significands is in (1/4, 1), and SigBits bits
\* of it are at least Precision + 5
DivScaled(x, y, sx, sy, qr) ==
    FRound((x.s + y.s) % 2, qr[2], (x.e - sx) - (y.e - sy) - SigBits,
           qr[1] # << >>)

DivFinite(x, y, sx, sy) ==
    DivScaled(x, y, sx, sy,
              DivLimbs(NShl(x.m, sx), NShl(y.m, sy), SigLimbs, << >>))

\* f64 /
FDiv(x, y) ==
    IF IsNaN(x) \/ IsNaN(y) THEN NaN
    ELSE IF IsInf(x) THEN (IF IsInf(y) THEN NaN ELSE Inf((x.s + y.s) % 2))
    ELSE IF IsInf(y) THEN FZero((x.s + y.s) % 2)
    ELSE IF IsZero(y) THEN (IF IsZero(x) THEN NaN ELSE Inf((x.s + y.s) % 2))
    ELSE IF IsZero(x) THEN FZero((x.s + y.s) % 2)
    ELSE DivFinite(x, y, SigBits - 1 - NBitLen(x.m), SigBits - NBitLen(y.m))

\* |a| against |b| for finite or infinite a, b: -1, 0, 1
MagCmp(a, b) ==
    IF IsInf(a) THEN (IF IsInf(b) THEN 0 ELSE 1)
    ELSE IF IsInf(b) THEN -1
    ELSE IF a.m = << >> THEN (IF b.m = << >> THEN 0 ELSE -1)
    ELSE IF b.m = << >> THEN 1
    ELSE IF a.e # b.e THEN (IF a.e < b.e THEN -1 ELSE 1)
    ELSE NCmp(a.m, b.m)

\* x against y for finite or infinite x, y: -1, 0, 1
FCmp(x, y) ==
    IF IsZero(x) /\ IsZero(y) THEN 0
    ELSE IF x.s # y.s THEN (IF x.s = 1 THEN -1 ELSE 1)
    ELSE MagCmp(IF x.s = 0 THEN x ELSE y, IF x.s = 0 THEN y ELSE x)

\* f64 ==, <, <=, > : false when an operand is NaN; -0 == +0
FEq(x, y) == ~IsNaN(x) /\ ~IsNaN(y) /\ FCmp(x, y) = 0

FLt(x, y) == ~IsNaN(x) /\ ~IsNaN(y) /\ FCmp(x, y) < 0

FLe(x, y) == ~IsNaN(x) /\ ~IsNaN(y) /\ FCmp(x, y) <= 0

FGt(x, y) == FLt(y, x)

\* the f64 a decimal literal n/d denotes (the nearest to the quotient)
Dec(n, d) == FDiv(FromInt(n), FromInt(d))

(***************************************************************************)
(* Complex<f64> (num crate): [re, im]; the operators the program uses.     *)
(***************************************************************************)
Complex(re, im) == [re |-> re, im |-> im]

\* Complex - Complex
CSub(a, b) == Complex(FSub(a.re, b.re), FSub(a.im, b.im))

\* Complex + Complex
CAdd(a, b) == Complex(FAdd(a.re, b.re), FAdd(a.im, b.im))

\* Complex * f64
CScale(a, t) == Complex(FMul(a.re, t), FMul(a.im, t))

\* Complex * Complex
CMul(a, b) == Complex(FSub(FMul(a.re, b.re), FMul(a.im, b.im)),
                      FAdd(FMul(a.re, b.im), FMul(a.im, b.re)))

(***************************************************************************)
(* The literals of main.rs                                                 *)
(***************************************************************************)
WIDTH == 800

HEIGHT == 600

window_size == <<WIDTH, HEIGHT>>

\* 2.0
F2_0 == Fin(0, <<0, 0, 0, 128>>, -51)

\* 1.5
F1_5 == Fin(0, <<0, 0, 0, 192>>, -52)

\* main.rs 103: (Complex::new(-2.0, -1.5), Complex::new(2.0, 1.5))
DefaultViewPort == <<Complex(FNeg(F2_0), FNeg(F1_5)), Complex(F2_0, F1_5)>>

DefaultIterations == 200

\* 0.1 = 0x1.999999999999ap-4
F0_1 == Fin(0, <<6554, 13107, 26214, 204>>, -56)

\* 1.0
F1_0 == Fin(0, <<0, 0, 0, 128>>, -52)

\* 4.0
F4_0 == Fin(0, <<0, 0, 0, 128>>, -50)

(***************************************************************************)
(* fn mandelbrot.  An Option<u32> is << >> for None and <<i>> for Some(i). *)
(***************************************************************************)
None == << >>

Some(i) == <<i>>

\* main.rs 18: z.re * z.re + z.im * z.im
SquaredModulus(z) == FAdd(FMul(z.re, z.re), FMul(z.im, z.im))

\* (a variant of Escaped: a squared modulus of 4.0 counts as an escape)
EscapedAtFour(z) == FLe(F4_0, SquaredModulus(z))

\* main.rs 18: the escape test
Escaped(z) == FGt(SquaredModulus(z), F4_0)

\* main.rs 17-20: the rest of a pass of the loop once z has been assigned.
\* The state of the loop is <<z, i, returned>>.
tested(z, i) == IF Escaped(z) THEN <<z, i, TRUE>> ELSE <<z, i + 1, FALSE>>

\* main.rs 16-21: n passes of the loop from the state s, or the passes up to
\* the return (the passes are made half by half)
RECURSIVE passes(_, _, _)
passes(s, c, n) ==
    IF n = 0 \/ s[3] THEN s
    ELSE IF n = 1 THEN tested(CAdd(CMul(s[1], s[1]), c), s[2])
    ELSE passes(passes(s, c, n \div 2), c, n - (n \div 2))

\* main.rs 19, 23: Some(i) if the loop returned in pass i, None if it ended
returned(s) == IF s[3] THEN Some(s[2]) ELSE None

\* (a variant of mandelbrot: the result counts the passes left, not the ones
\* made)
mandelbrot_passes_left(c, iterations) ==
    IF passes(<<Complex(FZero(0), FZero(0)), 0, FALSE>>, c, iterations)[3]
    THEN Some(iterations - 1
              - passes(<<Complex(FZero(0), FZero(0)), 0, FALSE>>, c, iterations)[2])
    ELSE None

\* main.rs 14-24
mandelbrot(c, iterations) ==
    returned(passes(<<Complex(FZero(0), FZero(0)), 0, FALSE>>, c, iterations))

(***************************************************************************)
(* fn x_y_to_complex                                                       *)
(***************************************************************************)
\* (a variant of x_y_to_complex: the two sides of the window are exchanged)
x_y_to_complex_swapped(x, y, size, vp) ==
    LET rel_x == FDiv(FromInt(x), FromInt(size[2]))
        rel_y == FDiv(FromInt(y), FromInt(size[1]))
        d     == CSub(vp[2], vp[1])
        re    == FAdd(vp[1].re, FMul(rel_x, d.re))
        im    == FAdd(vp[1].im, FMul(rel_y, d.im))
    IN  Complex(re, im)

\* main.rs 26-38
x_y_to_complex(x, y, size, vp) ==
    LET rel_x == FDiv(FromInt(x), FromInt(size[1]))
        rel_y == FDiv(FromInt(y), FromInt(size[2]))
        d     == CSub(vp[2], vp[1])
        re    == FAdd(vp[1].re, FMul(rel_x, d.re))
        im    == FAdd(vp[1].im, FMul(rel_y, d.im))
    IN  Complex(re, im)

(***************************************************************************)
(* main: the viewport after a cycle that sampled the left button held at   *)
(* pixel (x, y), and after one that sampled the right button held.         *)
(***************************************************************************)
\* main.rs 162-172: rel_click
RelClick(vp, x, y) ==
    LET d           == CSub(vp[2], vp[1])
        click_point == x_y_to_complex(x, y, window_size, vp)
    IN  Complex(FDiv(FSub(click_point.re, vp[1].re), d.re),
                FDiv(FSub(click_point.im, vp[1].im), d.im))

\* (a variant of ZoomIn: the two shares of the shrink are exchanged)
ZoomInSwapped(vp, x, y) ==
    LET d         == CSub(vp[2], vp[1])
        rel_click == RelClick(vp, x, y)
    IN  << Complex(FAdd(vp[1].re, FMul(FMul(d.re, F0_1), FSub(F1_0, rel_click.re))),
                   FAdd(vp[1].im, FMul(FMul(d.im, F0_1), FSub(F1_0, rel_click.im)))),
           Complex(FSub(vp[2].re, FMul(FMul(d.re, F0_1), rel_click.re)),
                   FSub(vp[2].im, FMul(FMul(d.im, F0_1), rel_click.im))) >>

\* (a variant of ZoomIn: the frame shrinks about its centre, wherever the
\* pointer is)
ZoomInCentred(vp, x, y) ==
    LET d == CSub(vp[2], vp[1])
    IN  << Complex(FAdd(vp[1].re, FMul(FMul(d.re, F0_1), Dec(1, 2))),
                   FAdd(vp[1].im, FMul(FMul(d.im, F0_1), Dec(1, 2)))),
           Complex(FSub(vp[2].re, FMul(FMul(d.re, F0_1), Dec(1, 2))),
                   FSub(vp[2].im, FMul(FMul(d.im, F0_1), Dec(1, 2)))) >>

\* main.rs 162-180
ZoomIn(vp, x, y) ==
    LET d         == CSub(vp[2], vp[1])
        rel_click == RelClick(vp, x, y)
    IN  << Complex(FAdd(vp[1].re, FMul(FMul(d.re, F0_1), rel_click.re)),
                   FAdd(vp[1].im, FMul(FMul(d.im, F0_1), rel_click.im))),
           Complex(FSub(vp[2].re, FMul(FMul(d.re, F0_1), FSub(F1_0, rel_click.re))),
                   FSub(vp[2].im, FMul(FMul(d.im, F0_1), FSub(F1_0, rel_click.im)))) >>

\* (a variant of ZoomOut: d is taken again after the first corner has moved)
ZoomOutFromNewCorner(vp) ==
    LET d  == CSub(vp[2], vp[1])
        tl == CSub(vp[1], CScale(d, F0_1))
    IN  << tl, CAdd(vp[2], CScale(CSub(vp[2], tl), F0_1)) >>

\* main.rs 189-191
ZoomOut(vp) ==
    LET d == CSub(vp[2], vp[1])
    IN  << CSub(vp[1], CScale(d, F0_1)), CAdd(vp[2], CScale(d, F0_1)) >>

(***************************************************************************)
(* draw_fractal, main.rs 62-72: the colour of one pixel.  The product      *)
(* 255 * iter is a u32 product: when it does not fit 32 bits a build       *)
(* without overflow checks keeps its low 32 bits and a build with them     *)
(* panics.                                                                 *)
(***************************************************************************)
\* the low 32 bits of a
U32(a) == Trim(<<Limb(a, 1), Limb(a, 2), Limb(a, 3) % 4>>)

\* <<a[n-1..0] % d, (a[n-1..0] \div d) % 256>> continued from rq, the pair for
\* the bits above n
RECURSIVE DivBits(_, _, _, _)
DivBits(a, d, n, rq) ==
    IF n = 0 THEN rq
    ELSE DivBits(a, d, n - 1,
                 IF 2 * rq[1] + NBit(a, n - 1) >= d
                 THEN <<2 * rq[1] + NBit(a, n - 1) - d, (2 * rq[2] + 1) % 256>>
                 ELSE <<2 * rq[1] + NBit(a, n - 1), (2 * rq[2]) % 256>>)

\* (a / d) as u8, for a natural a and a u32 d > 0
QuotientAsU8(a, d) == DivBits(a, d, NBitLen(a), <<0, 0>>)[2]

\* [c / 2, c, c]
Gradient(c) == <<c \div 2, c, c>>

\* the outcome of a panic: no colour
Panic == << >>

\* the outcomes of the closure for the escape result i at the depth given
paint(i, depth) ==
    IF i = None THEN {<<0, 0, 0>>}
    ELSE IF NBitLen(NMulSmall(NatOfInt(i[1]), 255)) <= 32
    THEN {Gradient(QuotientAsU8(NMulSmall(NatOfInt(i[1]), 255), depth))}
    ELSE {Gradient(QuotientAsU8(U32(NMulSmall(NatOfInt(i[1]), 255)), depth)), Panic}

(***************************************************************************)
(* The state of main.                                                      *)
(*   pc          where main is: "start" (before the first draw_fractal),   *)
(*               "poll" (in `for event in event_pump.poll_iter()`),        *)
(*               "mouse" (at MouseState::new), "draw" (in a draw_fractal   *)
(*               call), "exited" (returned Ok), "failed" (returned Err),   *)
(*               "panicked" (a panic unwound main)                         *)
(*   view_port, iterations   the locals of main                            *)
(*   events      the window system's event queue, oldest first             *)
(*   mouse_state the last sample taken by MouseState::new                  *)
(*   rendered    the (view_port, iterations) of the frame on the canvas    *)
(*   draws       the number of draw_fractal calls made                     *)
(* History, for stating the properties:                                    *)
(*   step        what the last step of main handled                        *)
(*   prev        <<view_port, iterations, mouse_state>> before that step   *)
(*   arrived     the events delivered                                      *)
(*   keys, zooms the depth changes and the zoom steps applied              *)
(*   probe       the arguments and the result of the last application of   *)
(*               x_y_to_complex or of the colour closure to one pixel      *)
(*               within the draw_fractal call under way                    *)
(***************************************************************************)
VARIABLES pc, view_port, iterations, events, mouse_state, rendered, draws,
          step, prev, arrived, keys, zooms, probe

vars == <<pc, view_port, iterations, events, mouse_state, rendered, draws,
          step, prev, arrived, keys, zooms, probe>>

\* bounds of the model: events delivered, zoom steps applied
MaxEvents == 3

MaxZooms == 2

Events == {"Quit", "Escape", "KpPlus", "KpMinus", "Other"}

Sample(x, y, left, right) == [x |-> x, y |-> y, left |-> left, right |-> right]

NoSample == Sample(0, 0, FALSE, FALSE)

\* the samples of the mouse the model draws from
Samples == { Sample(1, 2, FALSE, FALSE), Sample(400, 300, TRUE, FALSE),
             Sample(400, 300, FALSE, TRUE), Sample(200, 450, TRUE, TRUE) }

\* the f64 literals written as significands are the values of the decimals
LiteralsExact ==
    /\ F0_1 = Dec(1, 10)
    /\ F1_0 = FromInt(1)
    /\ F2_0 = FromInt(2)
    /\ F1_5 = Dec(15, 10)
    /\ F4_0 = FromInt(4)

\* main.rs 103-104 and the state before the first call
InitAt(depth) ==
    /\ pc = "start"
    /\ view_port = DefaultViewPort
    /\ iterations = depth
    /\ events = << >>
    /\ mouse_state = NoSample
    /\ rendered = << >>
    /\ draws = 0
    /\ step = "none"
    /\ prev = << >>
    /\ arrived = 0
    /\ keys = 0
    /\ zooms = 0
    /\ probe = << >>

InitMain == InitAt(DefaultIterations)

Init == LiteralsExact /\ InitMain

Running == pc \notin {"exited", "failed", "panicked"}

Current == <<view_port, iterations, mouse_state>>

\* (a variant of Arrive: a key event is handled the moment it arrives, inside
\* a draw_fractal call too)
ArriveHandled ==
    /\ Running
    /\ pc # "mouse"
    /\ arrived < MaxEvents
    /\ \E e \in Events :
          /\ events' = Append(events, e)
          /\ iterations' = IF e = "KpPlus" THEN iterations + 100 ELSE iterations
    /\ arrived' = arrived + 1
    /\ UNCHANGED <<pc, view_port, mouse_state, rendered, draws,
                   step, prev, keys, zooms, probe>>

\* The window system queues an event, at any time while the process lives.
\* (Between the end of a drain and the sample of the mouse nothing reads the
\* queue: an event queued there is one queued right after the sample.)
Arrive ==
    /\ Running
    /\ pc # "mouse"
    /\ arrived < MaxEvents
    /\ \E e \in Events : events' = Append(events, e)
    /\ arrived' = arrived + 1
    /\ UNCHANGED <<pc, view_port, iterations, mouse_state, rendered, draws,
                   step, prev, keys, zooms, probe>>

\* main.rs 109-115: the first draw_fractal call
Start ==
    /\ pc = "start"
    /\ pc' = "draw"
    /\ step' = "Init"
    /\ prev' = Current
    /\ UNCHANGED <<view_port, iterations, events, mouse_state, rendered, draws,
                   arrived, keys, zooms, probe>>

\* (a variant of draw_fractal: the canvas keeps the frame it had)
draw_fractal_stale ==
    /\ pc = "draw"
    /\ draws' = draws + 1
    /\ \E ok \in BOOLEAN : pc' = IF ok THEN "poll" ELSE "failed"
    /\ probe' = << >>
    /\ UNCHANGED <<view_port, iterations, events, mouse_state, rendered, step,
                   prev, arrived, keys, zooms>>

\* (a variant of draw_fractal: an error is dropped and the loop goes on)
draw_fractal_unchecked ==
    /\ pc = "draw"
    /\ draws' = draws + 1
    /\ \E ok \in BOOLEAN :
          /\ pc' = "poll"
          /\ rendered' = IF ok THEN <<view_port, iterations>> ELSE rendered
    /\ probe' = << >>
    /\ UNCHANGED <<view_port, iterations, events, mouse_state, step, prev,
                   arrived, keys, zooms>>

\* main.rs 40-88, called at 109, 132, 147, 181, 192: the frame of
\* (view_port, iterations) is computed and presented, or building the
\* surface, the texture or the copy fails and `?` makes main return the error
draw_fractal ==
    /\ pc = "draw"
    /\ draws' = draws + 1
    /\ \E ok \in BOOLEAN :
          /\ pc' = IF ok THEN "poll" ELSE "failed"
          /\ rendered' = IF ok THEN <<view_port, iterations>> ELSE rendered
    /\ probe' = << >>
    /\ UNCHANGED <<view_port, iterations, events, mouse_state, step, prev,
                   arrived, keys, zooms>>

\* the window sizes canvas.window().size() is taken from in the model: the
\* size asked for at main.rs 96-97, and two more a window system may impose
Sizes == {window_size, <<4, 4>>, <<1, 1>>}

\* the pixels of a window of the size given the model maps: its corners and
\* its centre
PixelsOf(size) ==
    {<<0, 0>>, <<size[1] - 1, 0>>, <<0, size[2] - 1>>,
     <<size[1] - 1, size[2] - 1>>, <<size[1] \div 2, size[2] \div 2>>}

\* main.rs 51-55 (and 163-168): x_y_to_complex is applied to one pixel of
\* the window under the viewport of the call
MapPixel ==
    /\ pc = "draw"
    /\ probe = << >>
    /\ \E size \in Sizes : \E px \in PixelsOf(size) :
          probe' = [x |-> px[1], y |-> px[2], size |-> size,
                    c |-> x_y_to_complex(px[1], px[2], size, view_port)]
    /\ UNCHANGED <<pc, view_port, iterations, events, mouse_state, rendered,
                   draws, step, prev, arrived, keys, zooms>>

\* the escape results the model paints at the depth given: for the depths
\* of a few hundred all of them, above that the ones around the largest
\* index whose product with 255 fits a u32 (16843009), and 18145508, the
\* index mandelbrot returns for c = 0.25 + 3e-14
EscapeResults(depth) ==
    {None} \cup
    { Some(i) : i \in IF depth <= 300 THEN 0..(depth - 1)
                      ELSE {j \in {0, 1, 16843009, 16843010, 18145508, depth - 1} :
                              j < depth} }

\* main.rs 62-72: the colour closure is applied to the escape result of one
\* pixel; a panic unwinds main
PaintPixel ==
    /\ pc = "draw"
    /\ probe = << >>
    /\ \E i \in EscapeResults(iterations) : \E colour \in paint(i, iterations) :
          /\ probe' = [i |-> i, depth |-> iterations, colour |-> colour]
          /\ pc' = IF colour = Panic THEN "panicked" ELSE pc
    /\ UNCHANGED <<view_port, iterations, events, mouse_state, rendered,
                   draws, step, prev, arrived, keys, zooms>>

\* the points and the iteration bounds the model applies mandelbrot to:
\* 0, 3, the points 2 and -2 of squared modulus 4.0, points in and out of
\* the set, points a frame of the default viewport maps pixels to, and the
\* non-finite points a viewport that has overflowed yields
MaxIterations == 12

EscapePoints ==
    { Complex(FZero(0), FZero(0)), Complex(FromInt(3), FZero(0)),
      Complex(F2_0, FZero(0)), Complex(FNeg(F2_0), FZero(0)),
      Complex(F1_0, FZero(0)), Complex(FZero(0), F1_0),
      Complex(Dec(1, 2), Dec(1, 2)), Complex(Dec(3, 10), FZero(0)),
      Complex(Dec(-1, 2), Dec(65, 100)),
      x_y_to_complex(0, 0, window_size, DefaultViewPort),
      x_y_to_complex(520, 300, window_size, DefaultViewPort),
      x_y_to_complex(300, 150, window_size, DefaultViewPort),
      Complex(Inf(0), FZero(0)), Complex(NaN, F1_0) }

\* main.rs 51-56: mandelbrot is applied to one point, at one iteration bound
\* and at another
EscapePixel ==
    /\ pc = "draw"
    /\ probe = << >>
    /\ \E c \in EscapePoints : \E n \in 0..MaxIterations : \E m \in 0..MaxIterations :
          probe' = [c |-> c, n |-> n, m |-> m,
                    at_n |-> mandelbrot(c, n), at_m |-> mandelbrot(c, m)]
    /\ UNCHANGED <<pc, view_port, iterations, events, mouse_state, rendered,
                   draws, step, prev, arrived, keys, zooms>>

\* the WIDTH and the HEIGHT of the frames the model computes pixel by pixel
FrameWidth == 3

FrameHeight == 2

FrameSize == <<FrameWidth, FrameHeight>>

\* main.rs 105-107: (0..height).cartesian_product(0..width), collected: for
\* each y in turn, the pairs (y, x) for each x in turn
RECURSIVE y_x_coords_from(_, _, _)
y_x_coords_from(y, height, width) ==
    IF y >= height THEN << >>
    ELSE [i \in 1..width |-> <<y, i - 1>>] \o y_x_coords_from(y + 1, height, width)

y_x_coords(height, width) == y_x_coords_from(0, height, width)

\* main.rs 53-56: the closure of the map, for the pair (y, x)
escape_of(yx, size, vp, depth) ==
    mandelbrot(x_y_to_complex(yx[2], yx[1], size, vp), depth)

\* a slot of the collected Vec no worker has written yet
Pending == <<0, 0>>

\* the first slot of data not yet written
FirstPending(data) == CHOOSE k \in 1..Len(data) :
                         /\ data[k] = Pending
                         /\ \A j \in 1..(k - 1) : data[j] # Pending

\* (a variant of Collected: the results are stored in the order the workers
\* deliver them)
CollectedInArrivalOrder(data, k, r) == [data EXCEPT ![FirstPending(data)] = r]

\* main.rs 57: collect::<Vec<_>>() of an indexed parallel iterator: the
\* result of item k is written to slot k
Collected(data, k, r) == [data EXCEPT ![k] = r]

\* main.rs 51-52: y_x_coords.par_iter(): the call has its arguments, no item
\* is computed yet.  results is the closure over the arguments of the call,
\* tabulated: it is a function of its pair alone
BeginFrame ==
    /\ pc = "draw"
    /\ probe = << >>
    /\ probe' = [coords  |-> y_x_coords(FrameHeight, FrameWidth),
                 results |-> [yx \in (0..(FrameHeight - 1)) \X (0..(FrameWidth - 1)) |->
                                escape_of(yx, FrameSize, view_port, iterations)],
                 data    |-> [k \in 1..(FrameHeight * FrameWidth) |-> Pending],
                 bytes   |-> << >>]
    /\ UNCHANGED <<pc, view_port, iterations, events, mouse_state, rendered,
                   draws, step, prev, arrived, keys, zooms>>

\* main.rs 52-57: some worker computes some item not yet computed, whatever
\* the other workers have done, and its result is collected
ComputePixel ==
    /\ pc = "draw"
    /\ probe # << >>
    /\ \E k \in 1..Len(probe.coords) :
          /\ probe.data[k] = Pending
          /\ probe' = [probe EXCEPT
                         !.data = Collected(probe.data, k, probe.results[probe.coords[k]])]
    /\ UNCHANGED <<pc, view_port, iterations, events, mouse_state, rendered,
                   draws, step, prev, arrived, keys, zooms>>

\* the buffers flat_map yields for the results given: the colours of the
\* results, in their order
RECURSIVE flat_map(_, _)
flat_map(data, depth) ==
    IF data = << >> THEN {<< >>}
    ELSE { colour \o rest : colour \in paint(Head(data), depth) \ {Panic},
                            rest \in flat_map(Tail(data), depth) }

\* main.rs 62-72: every item is collected; the results are flattened to the
\* bytes of the frame, or the closure panics
FlattenFrame ==
    /\ pc = "draw"
    /\ probe # << >>
    /\ probe.bytes = << >>
    /\ \A k \in 1..Len(probe.data) : probe.data[k] # Pending
    /\ \/ /\ \E bytes \in flat_map(probe.data, iterations) :
                 probe' = [probe EXCEPT !.bytes = bytes]
          /\ UNCHANGED pc
       \/ /\ \E k \in 1..Len(probe.data) : Panic \in paint(probe.data[k], iterations)
          /\ pc' = "panicked"
          /\ UNCHANGED probe
    /\ UNCHANGED <<view_port, iterations, events, mouse_state, rendered,
                   draws, step, prev, arrived, keys, zooms>>

\* main.rs 74-87: the rest of the call, once the bytes of the frame are built
PresentFrame ==
    /\ probe # << >>
    /\ probe.bytes # << >>
    /\ draw_fractal

\* (a variant of IsQuit: Escape does not break the loop)
IsQuitOnlyClose(event) == event = "Quit"

\* main.rs 121-125: the events that break the loop
IsQuit(event) == event \in {"Quit", "Escape"}

\* main.rs 130
Increased(depth) == depth + 100

\* (a variant of CanDecrease: the floor test is off by one step)
CanDecreaseAtFloor(depth) == depth >= 100

\* main.rs 144
CanDecrease(depth) == depth > 100

\* main.rs 145
Decreased(depth) == depth - 100

\* main.rs 119-158: poll_iter yields the oldest queued event
Poll ==
    /\ pc = "poll"
    /\ events # << >>
    /\ events' = Tail(events)
    /\ prev' = Current
    /\ LET event == Head(events)
       IN  CASE IsQuit(event) ->
                  /\ pc' = "exited"
                  /\ step' = "Quit"
                  /\ UNCHANGED <<iterations, keys>>
             [] ~IsQuit(event) /\ event = "KpPlus" ->
                  /\ iterations' = Increased(iterations)
                  /\ pc' = "draw"
                  /\ step' = "KpPlus"
                  /\ keys' = keys + 1
             [] ~IsQuit(event) /\ event = "KpMinus" ->
                  IF CanDecrease(iterations)
                  THEN /\ iterations' = Decreased(iterations)
                       /\ pc' = "draw"
                       /\ step' = "KpMinus"
                       /\ keys' = keys + 1
                  ELSE /\ UNCHANGED <<iterations, pc, keys>>
                       /\ step' = "KpMinusRefused"
             [] OTHER ->
                  /\ UNCHANGED <<iterations, pc, keys>>
                  /\ step' = "Other"
    /\ UNCHANGED <<view_port, mouse_state, rendered, draws, arrived, zooms, probe>>

\* main.rs 119, 160: poll_iter is exhausted, the for loop ends
PollEmpty ==
    /\ pc = "poll"
    /\ events = << >>
    /\ pc' = "mouse"
    /\ UNCHANGED <<view_port, iterations, events, mouse_state, rendered, draws,
                   step, prev, arrived, keys, zooms, probe>>

\* (a variant of LeftHeld: the left button counts when it is the only one
\* held)
LeftHeldAlone(ms) == ms.left /\ ~ms.right

\* (a variant of LeftHeld: edge-triggered, a press counts once)
LeftPressed(ms) == ms.left /\ ~mouse_state.left

\* main.rs 161: `if mouse_state.left()`
LeftHeld(ms) == ms.left

\* main.rs 188: `else if mouse_state.right()`
RightHeld(ms) == ms.right

\* main.rs 160-200: the mouse is sampled; a held button zooms and draws,
\* then the cycle sleeps and the loop starts over
Mouse(S, limit) ==
    /\ pc = "mouse"
    /\ \E ms \in S :
          /\ (ms.left \/ ms.right) => zooms < limit
          /\ mouse_state' = ms
          /\ prev' = Current
          /\ IF LeftHeld(ms)
             THEN /\ view_port' = ZoomIn(view_port, ms.x, ms.y)
                  /\ pc' = "draw"
                  /\ step' = "ZoomIn"
                  /\ zooms' = zooms + 1
             ELSE IF RightHeld(ms)
             THEN /\ view_port' = ZoomOut(view_port)
                  /\ pc' = "draw"
                  /\ step' = "ZoomOut"
                  /\ zooms' = zooms + 1
             ELSE /\ UNCHANGED <<view_port, zooms>>
                  /\ pc' = "poll"
                  /\ step' = "Idle"
    /\ UNCHANGED <<iterations, events, rendered, draws, arrived, keys, probe>>

MouseSampled == Mouse(Samples, MaxZooms)

\* the steps of main
Main == Start \/ draw_fractal \/ Poll \/ PollEmpty \/ MouseSampled

Next == Arrive \/ Main

Spec == Init /\ [][Next]_vars

\* SpecQuit: every event arrives, the pointer rests or the right button is
\* held; main runs on: the loop does not stop by itself, and a draw_fractal
\* call returns
QuitSamples == {Sample(1, 2, FALSE, FALSE), Sample(400, 300, FALSE, TRUE)}

MouseQuit == Mouse(QuitSamples, MaxZooms)

MainQuit == Start \/ draw_fractal \/ Poll \/ PollEmpty \/ MouseQuit

NextQuit == Arrive \/ MainQuit

SpecQuit == Init /\ [][NextQuit]_vars /\ WF_vars(MainQuit)

(***************************************************************************)
(* The same program under narrower environments, with no key events.       *)
(***************************************************************************)

\* SpecZoom: the pointer is anywhere, in the window or dragged out of it
ZoomSamples ==
    { Sample(5, 5, FALSE, FALSE),
      Sample(400, 300, TRUE, FALSE), Sample(0, 0, TRUE, FALSE),
      Sample(1, 1, TRUE, FALSE), Sample(200, 150, TRUE, FALSE),
      Sample(799, 599, TRUE, FALSE), Sample(600, 100, TRUE, FALSE),
      Sample(-40, 650, TRUE, FALSE),
      Sample(400, 300, FALSE, TRUE), Sample(13, 577, FALSE, TRUE) }

MouseZoom == Mouse(ZoomSamples, MaxZooms)

NextZoom == Start \/ draw_fractal \/ PollEmpty \/ MouseZoom

SpecZoom == Init /\ [][NextZoom]_vars

\* SpecMap: the left button is held at pixel (200, 150) for LeftHeldFor
\* cycles, and the pixels of each frame are mapped
LeftHeldFor == 345

MouseLeftHeld == Mouse({Sample(200, 150, TRUE, FALSE)}, LeftHeldFor)

NextMap == Start \/ MapPixel \/ draw_fractal \/ PollEmpty \/ MouseLeftHeld

SpecMap == Init /\ [][NextMap]_vars

\* SpecHold: the right button is held for RightHeldFor cycles (a little over
\* two minutes at 30 cycles a second), then the left button is pressed at
\* the centre of the window
RightHeldFor == 3887

MouseRightHeld ==
    Mouse(IF zooms < RightHeldFor
          THEN {Sample(400, 300, FALSE, TRUE)}
          ELSE {Sample(400, 300, TRUE, FALSE)},
          RightHeldFor + 1)

NextHold == Start \/ draw_fractal \/ PollEmpty \/ MouseRightHeld

SpecHold == Init /\ [][NextHold]_vars

\* SpecPaint: the depth is one that KpPlus and KpMinus events reach from 200
\* (a multiple of 100; 18145600 after 181454 increases), and the pixels of
\* the first frame at that depth are painted
PaintDepths == {100, 200, 300, 18145600}

InitPaint == LiteralsExact /\ \E depth \in PaintDepths : InitAt(depth)

NextPaint == Start \/ PaintPixel \/ draw_fractal

SpecPaint == InitPaint /\ [][NextPaint]_vars

\* SpecEscape: mandelbrot is applied to the points of EscapePoints at the
\* iteration bounds up to MaxIterations
NextEscape == Start \/ EscapePixel \/ draw_fractal

SpecEscape == Init /\ [][NextEscape]_vars

\* SpecFrame: the frames are computed item by item, by workers that take the
\* items in any order; the left button is held at pixel (200, 150) or the
\* pointer rests
FrameSamples == {Sample(5, 5, FALSE, FALSE), Sample(200, 150, TRUE, FALSE)}

MouseFrame == Mouse(FrameSamples, MaxZooms)

NextFrame ==
    Start \/ BeginFrame \/ ComputePixel \/ FlattenFrame \/ PresentFrame
          \/ PollEmpty \/ MouseFrame

SpecFrame == Init /\ [][NextFrame]_vars

(***************************************************************************)
(* Properties of the loop                                                  *)
(***************************************************************************)

RenderSync ==
    /\ pc \in {"poll", "mouse"} => rendered = <<view_port, iterations>>
    /\ pc = "draw" => /\ step \in {"Init", "KpPlus", "KpMinus", "ZoomIn", "ZoomOut"}
                      /\ draws = keys + zooms
    /\ pc \in {"poll", "mouse", "exited", "failed"} => draws = 1 + keys + zooms
    /\ step \in {"KpPlus", "KpMinus", "ZoomIn", "ZoomOut"}
          => pc \in {"draw", "failed"} \/ rendered = <<view_port, iterations>>
    /\ step \in {"KpMinusRefused", "Other", "Idle"}
          => /\ pc \in {"poll", "mouse"}
             /\ <<view_port, iterations>> = <<prev[1], prev[2]>>

\* a depth change and a zoom step have each been rendered once
RenderSyncWitness ==
    /\ pc = "poll"
    /\ step = "ZoomOut"
    /\ keys = 1
    /\ zooms = 1
    /\ draws = 3
    /\ rendered = <<view_port, iterations>>
    /\ view_port # DefaultViewPort
    /\ iterations # DefaultIterations

\* C8: the buttons are level-triggered: a cycle that samples a button held
\* applies one zoom step and makes one draw_fractal call, also when the
\* sample equals that of the cycle before; a cycle that samples no button
\* held changes neither viewport nor depth and makes no call, wherever the
\* pointer is.
LevelTriggered ==
    [][pc = "mouse" =>
          IF mouse_state'.left \/ mouse_state'.right
          THEN /\ pc' = "draw"
               /\ zooms' = zooms + 1
               /\ step' \in {"ZoomIn", "ZoomOut"}
               /\ draws' = draws
               /\ iterations' = iterations
          ELSE /\ pc' = "poll"
               /\ UNCHANGED <<view_port, iterations, rendered, draws, zooms>>]_vars

\* two cycles in a row sampled the same held button at the same pixel, and
\* each applied a zoom step and made a call
LevelTriggeredWitness ==
    /\ pc = "poll"
    /\ step = "ZoomIn"
    /\ mouse_state.left
    /\ prev[3] = mouse_state
    /\ zooms = 2
    /\ draws = 3
    /\ keys = 0

QuitQueued == \E i \in 1..Len(events) : IsQuit(events[i])

\* C9: when a Quit or a KeyDown(Escape) event is dequeued main returns Ok
\* at once: viewport, depth and canvas stay as they are and no call is made;
\* after that nothing is dequeued, sampled, changed or drawn; and once such
\* an event is queued, main eventually returns.
QuitTerminal ==
    /\ [][(/\ pc = "poll"
           /\ events # << >>
           /\ Head(events) \in {"Quit", "Escape"}
           /\ Len(events') < Len(events))
          => /\ pc' = "exited"
             /\ UNCHANGED <<view_port, iterations, rendered, draws, mouse_state>>]_vars
    /\ [][pc = "exited" => UNCHANGED vars]_vars
    /\ (QuitQueued ~> pc \in {"exited", "failed"})

\* main has returned Ok on Escape, with an event behind it left in the queue
QuitTerminalWitness ==
    /\ pc = "exited"
    /\ step = "Quit"
    /\ events # << >>
    /\ draws = 1

(***************************************************************************)
(* Properties of the zoom steps (under SpecZoom)                           *)
(***************************************************************************)

\* 0.9 = 0x1.ccccccccccccdp-1
F0_9 == Fin(0, <<19661, 6553, 13107, 230>>, -53)

\* 2^-49, eight units in the last place of 1.0
Rounding == Fin(0, <<0, 0, 0, 128>>, -101)

\* |x|
FAbs(x) == IF IsNaN(x) THEN x ELSE [x EXCEPT !.s = 0]

\* the larger of |lo| and |hi|
Mag(lo, hi) == IF FLt(FAbs(lo), FAbs(hi)) THEN FAbs(hi) ELSE FAbs(lo)

\* |a - b| <= 2^-49 * m
Near(a, b, m) == FLe(FAbs(FSub(a, b)), FMul(Rounding, m))

\* main has just applied a zoom-in to prev[1] at the pixel of mouse_state
ZoomedIn == pc = "draw" /\ step = "ZoomIn"

\* main has just applied a zoom-out to prev[1]
ZoomedOut == pc = "draw" /\ step = "ZoomOut"

\* the viewport (tl, br) moved by the shares a (of tl) and b (of br) of 0.1 * d
Shrunk(tl, br, d, a, b) ==
    << Complex(FAdd(tl.re, FMul(FMul(d.re, F0_1), a.re)),
               FAdd(tl.im, FMul(FMul(d.im, F0_1), a.im))),
       Complex(FSub(br.re, FMul(FMul(d.re, F0_1), b.re)),
               FSub(br.im, FMul(FMul(d.im, F0_1), b.im))) >>

\* (cp - tl) / d on each axis
RelativeTo(cp, tl, d) ==
    Complex(FDiv(FSub(cp.re, tl.re), d.re), FDiv(FSub(cp.im, tl.im), d.im))

\* 1.0 - rel on each axis
Rest(rel) == Complex(FSub(F1_0, rel.re), FSub(F1_0, rel.im))

\* (x / width, y / height)
PixelShare(x, y) ==
    Complex(FDiv(FromInt(x), FromInt(WIDTH)), FDiv(FromInt(y), FromInt(HEIGHT)))

\* the click point of the zoom-in just applied
ClickPoint == x_y_to_complex(mouse_state.x, mouse_state.y, window_size, prev[1])

\* the result, in f64, of the claimed zoom-in from the default viewport at
\* pixel (400, 300): (-1.8, -1.35), (1.8, 1.35)
ZoomedInDefault ==
    << Complex(Fin(1, <<19661, 6553, 13107, 230>>, -52),
               Fin(1, <<6554, 13107, 26214, 172>>, -52)),
       Complex(Fin(0, <<19661, 6553, 13107, 230>>, -52),
               Fin(0, <<6554, 13107, 26214, 172>>, -52)) >>

\* the result of the claimed zoom-out from the default viewport:
\* (-2.4, -1.8), (2.4, 1.8)
ZoomedOutDefault ==
    << Complex(Fin(1, <<13107, 26214, 19660, 153>>, -51),
               Fin(1, <<19661, 6553, 13107, 230>>, -52)),
       Complex(Fin(0, <<13107, 26214, 19660, 153>>, -51),
               Fin(0, <<19661, 6553, 13107, 230>>, -52)) >>

\* the decimals above are the f64 values written
ZoomLiteralsExact ==
    /\ F0_9 = Dec(9, 10)
    /\ ZoomedInDefault = << Complex(Dec(-18, 10), Dec(-135, 100)),
                            Complex(Dec(18, 10), Dec(135, 100)) >>
    /\ ZoomedOutDefault = << Complex(Dec(-24, 10), Dec(-18, 10)),
                             Complex(Dec(24, 10), Dec(18, 10)) >>

ZoomOutTransform ==
    ZoomedOut =>
       LET tl == prev[1][1]
           br == prev[1][2]
           d  == CSub(br, tl)
       IN  /\ mouse_state.right /\ ~mouse_state.left
           /\ view_port[1] = Complex(FSub(tl.re, FMul(d.re, F0_1)),
                                     FSub(tl.im, FMul(d.im, F0_1)))
           /\ view_port[2] = Complex(FAdd(br.re, FMul(d.re, F0_1)),
                                     FAdd(br.im, FMul(d.im, F0_1)))
           /\ prev[1] = DefaultViewPort => view_port = ZoomedOutDefault

\* the default viewport zoomed out with the pointer away from the centre
ZoomOutWitness ==
    /\ ZoomedOut
    /\ prev[1] = DefaultViewPort
    /\ mouse_state.x = 13
    /\ view_port = ZoomedOutDefault

\* the relative position of the click point in the new viewport
RelativeAfter == RelativeTo(ClickPoint, view_port[1], CSub(view_port[2], view_port[1]))

\* the relative position of the click point in the old viewport
RelativeBefore == RelativeTo(ClickPoint, prev[1][1], CSub(prev[1][2], prev[1][1]))

Half == Fin(0, <<0, 0, 0, 128>>, -53)

\* a is strictly closer to 0.5 than b is, and is not 0.5
CloserToHalf(a, b) ==
    /\ FLt(FAbs(FSub(a, Half)), FAbs(FSub(b, Half)))
    /\ ~FEq(a, Half)

Painted == pc \in {"draw", "panicked"} /\ probe # << >>

\* floor(255 * i / depth), which is below 255 for i < depth
ExactShare(i, depth) == QuotientAsU8(NMulSmall(NatOfInt(i), 255), depth)

\* C5 (as claimed): None is painted (0, 0, 0); Some(i) at the depth max_iter
\* is painted (c/2, c, c) with c = floor(255*i/max_iter); Some(0) at 200 is
\* painted (0, 0, 0) and Some(199) at 200 is painted (126, 253, 253).
PaintFormula ==
    Painted =>
       /\ probe.i = None => probe.colour = <<0, 0, 0>>
       /\ probe.i # None => probe.colour = Gradient(ExactShare(probe.i[1], probe.depth))
       /\ (probe.i = Some(0) /\ probe.depth = 200) => probe.colour = <<0, 0, 0>>
       /\ (probe.i = Some(199) /\ probe.depth = 200) => probe.colour = <<126, 253, 253>>

\* C5, the part of it that holds: the formula, for the escape indices whose
\* product with 255 fits a u32, and the two colours named
PaintFormulaWithinU32 ==
    (Painted /\ (probe.i = None \/ probe.i[1] <= 16843009)) => PaintFormula

(***************************************************************************)
(* Properties of the viewport over long holds (under SpecHold, SpecMap)    *)
(***************************************************************************)

\* C6 (as claimed): the real and the imaginary span of the viewport are
\* non-zero, and the top-left corner is strictly below the bottom-right one
\* on both axes.
ViewportOrdered ==
    /\ FLt(view_port[1].re, view_port[2].re)
    /\ FLt(view_port[1].im, view_port[2].im)
    /\ ~IsZero(FSub(view_port[2].re, view_port[1].re))
    /\ ~IsZero(FSub(view_port[2].im, view_port[1].im))

\* x_y_to_complex has been applied to a pixel under view_port
Mapped == pc = "draw" /\ probe # << >>

\* the viewport has finite corners in order and a finite span
FiniteSpan ==
    /\ ViewportOrdered
    /\ IsFinite(FSub(view_port[2].re, view_port[1].re))
    /\ IsFinite(FSub(view_port[2].im, view_port[1].im))

\* C10 (as amended): for a window size with non-zero sides, a pixel (x, y)
\* with 0 <= x < width and 0 <= y < height and a viewport with tl < br on
\* both axes and a finite span, the mapped point p satisfies tl <= p <= br
\* on both axes; pixel (0, 0) maps exactly to tl; the far bound is not
\* strict: once the span is a few hundred units in the last place, pixels
\* near the far edge map to br itself.
MapInsideViewport ==
    (Mapped /\ FiniteSpan) =>
       /\ FLe(view_port[1].re, probe.c.re) /\ FLe(probe.c.re, view_port[2].re)
       /\ FLe(view_port[1].im, probe.c.im) /\ FLe(probe.c.im, view_port[2].im)
       /\ (probe.x = 0 /\ probe.y = 0)
             => FEq(probe.c.re, view_port[1].re) /\ FEq(probe.c.im, view_port[1].im)

\* the far corner pixel of the 800 x 600 window is mapped to the far corner
\* of the viewport itself
MapWitness ==
    /\ Mapped
    /\ FiniteSpan
    /\ probe.size = window_size
    /\ probe.x = WIDTH - 1
    /\ probe.y = HEIGHT - 1
    /\ FEq(probe.c.re, view_port[2].re)
    /\ FEq(probe.c.im, view_port[2].im)

\* C10 (as claimed): for a viewport with tl < br on both axes the mapped
\* point p satisfies tl <= p < br on both axes, pixel (0, 0) maps exactly
\* to tl, and pixel (width-1, height-1) maps strictly inside the far corner.
MapStrictlyInside ==
    (Mapped /\ ViewportOrdered) =>
       /\ FLe(view_port[1].re, probe.c.re) /\ FLt(probe.c.re, view_port[2].re)
       /\ FLe(view_port[1].im, probe.c.im) /\ FLt(probe.c.im, view_port[2].im)
       /\ (probe.x = 0 /\ probe.y = 0)
             => FEq(probe.c.re, view_port[1].re) /\ FEq(probe.c.im, view_port[1].im)

(***************************************************************************)
(* Properties of mandelbrot                                                *)
(***************************************************************************)
\* mandelbrot has been applied to a point at the two bounds of the probe
Iterated == pc = "draw" /\ probe # << >> /\ "at_n" \in DOMAIN probe

\* C11: mandelbrot is monotonic in the iteration bound: if mandelbrot(c, n)
\* is Some(k) then k < n and mandelbrot(c, m) is Some(k) for every
\* m >= k + 1; if mandelbrot(c, n) is None then mandelbrot(c, m) is None for
\* every m <= n.
EscapeMonotonic ==
    Iterated =>
       /\ probe.at_n # None =>
             /\ probe.at_n[1] < probe.n
             /\ probe.m >= probe.at_n[1] + 1 => probe.at_m = probe.at_n
       /\ (probe.at_n = None /\ probe.m <= probe.n) => probe.at_m = None

\* C11 happens: a point that escapes in a pass after the first, seen at a
\* larger bound and at the smallest bound that reaches the escape
EscapeMonotonicWitness ==
    /\ Iterated
    /\ probe.at_n = Some(4)
    /\ probe.n = MaxIterations
    /\ probe.m = 5
    /\ probe.at_m = Some(4)

\* C12: mandelbrot(0 + 0i, n) is None for every n >= 0;
\* mandelbrot(3 + 0i, n) is Some(0) for every n >= 1; the escape test is
\* strict: a point whose squared modulus is exactly 4.0 in the first pass
\* (z is c there) has not escaped in that pass.
KnownEscapes ==
    Iterated =>
       /\ probe.c = Complex(FZero(0), FZero(0)) => probe.at_n = None
       /\ (probe.c = Complex(FromInt(3), FZero(0)) /\ probe.n >= 1)
             => probe.at_n = Some(0)
       /\ FEq(SquaredModulus(probe.c), F4_0) => probe.at_n # Some(0)

\* C12 happens: the point 2 + 0i, of squared modulus 4.0, is passed over in
\* the first pass and escapes in the second
KnownEscapesWitness ==
    /\ Iterated
    /\ probe.c = Complex(F2_0, FZero(0))
    /\ probe.n = MaxIterations
    /\ probe.at_n = Some(1)

(***************************************************************************)
(* Properties of the calls of draw_fractal                                 *)
(***************************************************************************)
\* C13: an error of draw_fractal is fatal and never retried: a call either
\* presents the frame and main goes on, or presents nothing and main has
\* returned the error; main gets to that outcome from a call only, with no
\* event dequeued, no sample of the mouse and no frame presented on the
\* way; and once there main does nothing more, so the outcome is never Ok.
ErrorFatal ==
    [][ /\ draws' # draws =>
              \/ pc' = "poll" /\ rendered' = <<view_port, iterations>>
              \/ pc' = "failed" /\ rendered' = rendered
        /\ pc' = "failed" =>
              /\ pc = "draw"
              /\ draws' = draws + 1
              /\ UNCHANGED <<view_port, iterations, events, mouse_state,
                             rendered, keys, zooms>>
        /\ pc # "failed" ]_vars

\* C13 happens: a call after the first has failed while an event was queued
ErrorFatalWitness ==
    /\ pc = "failed"
    /\ draws >= 2
    /\ events # << >>
    /\ rendered # <<view_port, iterations>>

\* a frame is being computed
Computing == pc = "draw" /\ probe # << >> /\ "data" \in DOMAIN probe

\* the pixel of item k (from 0) in row-major order: <<y, x>>
PixelOf(k) == <<k \div FrameWidth, k % FrameWidth>>

\* C14: the coordinate list is the row-major product of the rows and the
\* columns; whatever the workers have done, a collected result at index k
\* (from 0) is the result of the pixel x = k mod WIDTH, y = k div WIDTH; the
\* frame buffer has WIDTH * HEIGHT * 3 bytes, with the colour of pixel k at
\* bytes 3k..3k+2, each computed from the viewport and the depth of this
\* call.
FrameAssociation ==
    Computing =>
       /\ Len(probe.coords) = FrameWidth * FrameHeight
       /\ \A k \in 0..(FrameWidth * FrameHeight - 1) :
             /\ probe.coords[k + 1] = PixelOf(k)
             /\ probe.data[k + 1] # Pending
                   => probe.data[k + 1] = probe.results[PixelOf(k)]
       /\ probe.bytes # << >> =>
             /\ Len(probe.bytes) = FrameWidth * FrameHeight * 3
             /\ \A k \in 0..(FrameWidth * FrameHeight - 1) :
                   SubSeq(probe.bytes, 3 * k + 1, 3 * k + 3)
                     \in paint(escape_of(PixelOf(k), FrameSize, view_port, iterations),
                               iterations)

\* C14 happens: in a call after a zoom step the workers have computed the
\* last item of the list and not yet the first, and the two pixels have
\* different results
FrameAssociationWitness ==
    /\ Computing
    /\ zooms >= 1
    /\ prev[1] # view_port
    /\ probe.data[1] = Pending
    /\ probe.data[FrameWidth * FrameHeight] # Pending
    /\ probe.data[FrameWidth * FrameHeight] # probe.results[PixelOf(0)]

\* C15: a draw_fractal call works on one snapshot and is not interrupted:
\* while a call is under way no step changes the viewport or the depth,
\* none dequeues an event (the queue only grows at its end) and none samples
\* the mouse; the call ends by presenting the frame of that viewport and
\* depth, or fails.  Input that arrives during the call is therefore seen
\* only after it.
RenderAtomic ==
    [][ pc = "draw" =>
          /\ UNCHANGED <<view_port, iterations, mouse_state, keys, zooms>>
          /\ Len(events') >= Len(events)
          /\ SubSeq(events', 1, Len(events)) = events
          /\ pc' \in {"draw", "poll", "failed", "panicked"}
          /\ pc' = "poll" => rendered' = <<view_port, iterations>> ]_vars

\* C15 happens: an event has arrived during the call that follows a zoom-in
\* (the queue was empty when the mouse was sampled) and waits in the queue
RenderAtomicWitness ==
    /\ pc = "draw"
    /\ step = "ZoomIn"
    /\ events # << >>
    /\ rendered # <<view_port, iterations>>

(***************************************************************************)
(* Properties of the colour byte (under SpecPaint)                         *)
(***************************************************************************)
\* C16 (as claimed): at every depth reached from 200 and for every escape
\* index below the depth, the u32 product 255 * iter does not exceed
\* 2^32 - 1 and the quotient by the depth is in 0..254, so that the cast to
\* a byte does not change it and a colour is painted.
ColourByteExact ==
    (Painted /\ probe.i # None) =>
       /\ NBitLen(NMulSmall(NatOfInt(probe.i[1]), 255)) <= 32
       /\ probe.colour # Panic
       /\ probe.colour[2] = ExactShare(probe.i[1], probe.depth)
       /\ probe.colour[2] \in 0..254

(***************************************************************************)
(* Properties of the mouse branches                                        *)
(***************************************************************************)
\* C17: the left button has priority over the right one: a cycle that
\* samples both held applies the zoom-in at the pointer and not the
\* zoom-out; a cycle applies at most one zoom transform for its sample, and
\* at most one draw_fractal call follows it before the next cycle polls.
LeftFirst ==
    [][ /\ pc = "mouse" =>
              /\ (mouse_state'.left /\ mouse_state'.right) =>
                    /\ step' = "ZoomIn"
                    /\ view_port' = ZoomIn(view_port, mouse_state'.x, mouse_state'.y)
                    /\ view_port' # ZoomOut(view_port)
              /\ zooms' \in {zooms, zooms + 1}
              /\ zooms' = zooms => view_port' = view_port /\ pc' = "poll"
              /\ zooms' = zooms + 1 => pc' = "draw"
              /\ draws' = draws
        /\ (pc = "draw" /\ step \in {"ZoomIn", "ZoomOut"} /\ draws' # draws) =>
              /\ draws' = draws + 1
              /\ pc' \in {"poll", "failed"}
              /\ UNCHANGED <<view_port, zooms>> ]_vars

\* C17 happens: both buttons were sampled held and the zoom-in was applied
LeftFirstWitness ==
    /\ pc = "draw"
    /\ step = "ZoomIn"
    /\ mouse_state.left /\ mouse_state.right
    /\ zooms = 1
    /\ view_port = ZoomIn(prev[1], mouse_state.x, mouse_state.y)
    /\ view_port # ZoomOut(prev[1])

(***************************************************************************)
(* Properties of the span over long holds (under SpecHold)                 *)
(***************************************************************************)
\* 2^-40
RatioSlack == Fin(0, <<0, 0, 0, 128>>, -92)

\* the span of the viewport, as the program computes it (main.rs 162, 189)
Span == CSub(view_port[2], view_port[1])

\* C18 (as claimed, the equalities taken up to rounding): the span of each
\* axis is the initial one times 0.9 for each zoom-in and 1.2 for each
\* zoom-out applied, so that in every reachable state the real span is to
\* the imaginary span as 4 is to 3: a quarter of the one and a third of
\* the other differ by at most 2^-40 times the larger corner magnitude.
SpanRatio ==
    FLe(FAbs(FSub(FMul(Span.re, Dec(1, 4)), FDiv(Span.im, FromInt(3)))),
        FMul(RatioSlack, Mag(view_port[1].re, view_port[2].re)))

====================================================================
